---- MODULE Spec2Model ----
(***************************************************************************)
(* Storage / session / cleanup subsystem of the 3D quote backend:          *)
(*   backend/services/storage_service.py  (StorageService)                 *)
(*   backend/main.py                      (request handlers, cleanup_task) *)
(*   backend/config/storage.py            (StorageConfig)                  *)
(*                                                                         *)
(* The handlers are asyncio coroutines on one event loop.  A step of the   *)
(* model is the code a coroutine runs between two suspension points.  The  *)
(* only awaits that suspend are the aiofiles calls of _save_local and      *)
(* _cleanup_local_files and asyncio.sleep; the boto3 calls are blocking,   *)
(* so in s3 mode a whole upload and a whole sweep are one step.            *)
(* Time is counted in hours.                                               *)
(*                                                                         *)
(* Spec is the whole system.  The sweeps and the clock write only the      *)
(* store, the task and the clock, and the session endpoints never read     *)
(* them, so the claims about the session ledger are checked under          *)
(* SpecLedger (the requests that reach the ledger, in every interleaving), *)
(* the claims about completed requests under SpecSerial (one request at a  *)
(* time) and the claims about the sweep under SpecSweep (uploads, the      *)
(* clock and the cleanup task).                                            *)
(***************************************************************************)
EXTENDS Integers, FiniteSets, Sequences, TLC

-----------------------------------------------------------------------------
(* Bounds of the model *)

\* number of stored names the model lets _generate_unique_filename hand out
MaxObjects == 2
\* last hour of the clock
MaxTime == 2
\* largest AUTO_DELETE_HOURS tried
MaxTTL == 1

-----------------------------------------------------------------------------
(* Inputs *)

\* concurrent upload requests (coroutines running upload_file)
Procs == {"u1", "u2"}

\* session_id query parameter; NoSession is an absent (None) or empty one
NoSession == "none"
Sessions == {"s1", "s2"}

\* uploaded bytes
Contents == {"X", "Y"}

\* original file names: <<stem, suffix>>
Filenames == {<<"cube", ".stl">>, <<"part", ".obj">>, <<"notes", ".txt">>}

\* Path(name).suffix
Suffix(filename) == filename[2]

\* main.py: allowed_extensions
allowed_extensions == {".stl", ".obj", ".step", ".stp", ".iges", ".igs", ".3mf"}

\* hashlib.sha256(...).hexdigest() of the bytes: a digest per content
sha256 == [c \in Contents |-> IF c = "X" THEN "h1" ELSE "h2"]

\* hashlib.sha256().hexdigest() of the bytes that were read; reading at the
\* end of a stream gives no bytes
digest(bytes) == IF bytes \in Contents THEN sha256[bytes] ELSE "h0"

\* io.BytesIO(content), main.py 108: the bytes and the position of the
\* stream; every read of this code goes to the end, so the position is the
\* start or the end
BytesIO(content) == [content |-> content, position |-> "start"]

\* file_content.seek(0)
seek(file_content) == [file_content EXCEPT !.position = "start"]

\* the bytes that reading file_content to its end returns
read_to_end(file_content) ==
    IF file_content.position = "start" THEN file_content.content ELSE ""

\* the stream after it was read to its end
at_end(file_content) == [file_content EXCEPT !.position = "end"]

\* faulty _calculate_file_hash: the stream is read from where it is and left
\* where the reading ended
calculate_file_hash_of_without_seek(file_content) ==
    [file_hash |-> digest(read_to_end(file_content)),
     file_content |-> at_end(file_content)]

\* _calculate_file_hash on a stream: seek(0), digest of all chunks, seek(0);
\* the digest and the stream as it is left
calculate_file_hash_of(file_content) ==
    [file_hash |-> digest(read_to_end(seek(file_content))),
     file_content |-> seek(at_end(seek(file_content)))]

\* _calculate_file_hash of the stream that upload_file makes of the bytes
calculate_file_hash(file_content) ==
    calculate_file_hash_of(BytesIO(file_content)).file_hash

\* the stream that save_file is given: the BytesIO of upload_file, which
\* save_file_with_duplicate_check has hashed when there is a session id
save_file_stream(session_id, file_content) ==
    IF session_id # NoSession
    THEN calculate_file_hash_of(BytesIO(file_content)).file_content
    ELSE BytesIO(file_content)

\* save_file, line 137: the file_hash it computes, registers and returns
save_file_hash(session_id, file_content) ==
    calculate_file_hash_of(save_file_stream(session_id, file_content)).file_hash

\* _save_local, lines 180-181, and _save_s3, line 200: seek(0) and the bytes
\* that are written, after save_file has hashed the stream
save_file_writes(session_id, file_content) ==
    read_to_end(seek(calculate_file_hash_of(
                         save_file_stream(session_id, file_content)).file_content))

Hashes == {calculate_file_hash(c) : c \in Contents}

\* asyncio.sleep(3600) of cleanup_task, in hours
SleepHours == 1

\* content of a blob file that was opened for writing and not yet written
Partial == "partial"

\* content of a sidecar that was opened for writing and not yet written
\* (json.loads raises on it), and the JSON of _save_local
NoMetadata == << >>
Metadata(upload_time) == <<upload_time>>

-----------------------------------------------------------------------------
VARIABLES
    storage_type,             \* StorageConfig.storage_type: "local" or "s3"
    auto_delete_hours,        \* StorageConfig.auto_delete_hours
    environment,              \* the environment variables that are set (and not
                              \* empty) and the packages that can be imported
    service,                  \* the outcome of StorageService() at import time
    now,                      \* datetime.now(), in hours
    session_file_hashes,      \* StorageService._session_file_hashes
    session_filename_hashes,  \* StorageService._session_filename_hashes
    files,                    \* local_upload_dir: blob files, name -> content
    metafiles,                \* local_upload_dir: <name>.meta files, name -> JSON
    s3_objects,               \* the bucket: key -> [body, metadata]
    uuids,                    \* number of uuid4() values drawn so far
    procs,                    \* the upload coroutines
    task,                     \* the cleanup_task coroutine
    stop,                     \* lifespan has called cleanup_task_handle.cancel()
    manual,                   \* the coroutine of a manual_cleanup request
    swept,                    \* history: what the sweep running now, or else the
                              \* last one, did with each stored name it examined
    reply,                    \* the response sent last
    accepted,                 \* history: session -> the <<content, filename>> registered
                              \* in it since its last clear or successful removal
    cleared,                  \* history: session -> the <<content, filename>> that were
                              \* registered in it when it was last cleared, while
                              \* nothing has been registered in it since
    rejected                  \* history: the upload <<session, filename, content>> that
                              \* the response sent last rejected with a 409

ledger == <<session_file_hashes, session_filename_hashes>>
store == <<files, metafiles, s3_objects>>
config == <<storage_type, auto_delete_hours, environment, service>>
response == <<reply, rejected>>
sweeper == <<task, stop, swept, manual>>
history == <<accepted, cleared>>
vars == <<storage_type, auto_delete_hours, environment, service, now,
          session_file_hashes,
          session_filename_hashes, files, metafiles, s3_objects, uuids,
          procs, task, stop, manual, swept, reply, accepted, cleared, rejected>>

is_local_storage == storage_type = "local"
is_s3_storage == storage_type = "s3"

\* what the environment can provide to the S3 backend: the three settings
\* without a default that StorageConfig reads with os.getenv, and boto3
Settings == {"S3_BUCKET_NAME", "AWS_ACCESS_KEY_ID", "AWS_SECRET_ACCESS_KEY"}
Environment == Settings \cup {"boto3"}

\* the truth value of a setting: None and the empty string are false
s3_bucket_name == "S3_BUCKET_NAME" \in environment
aws_access_key_id == "AWS_ACCESS_KEY_ID" \in environment
aws_secret_access_key == "AWS_SECRET_ACCESS_KEY" \in environment

\* storage_service.py, lines 13-19: import boto3 succeeded
S3_AVAILABLE == "boto3" \in environment

\* faulty validate_s3_config: the secret key is not required
validate_s3_config_without_secret ==
    IF is_s3_storage
    THEN s3_bucket_name /\ aws_access_key_id
    ELSE TRUE

\* StorageConfig.validate_s3_config
validate_s3_config ==
    IF is_s3_storage
    THEN s3_bucket_name /\ aws_access_key_id /\ aws_secret_access_key
    ELSE TRUE

\* StorageService.__init__, lines 35-40: the exception it raises, if any.
\* storage_service = StorageService() runs when main.py imports the module,
\* so an exception leaves the application without handlers and cleanup task
StorageService ==
    IF is_s3_storage /\ ~S3_AVAILABLE THEN "ImportError"
    ELSE IF is_s3_storage /\ ~validate_s3_config THEN "ValueError"
    ELSE "constructed"

\* the application has started: the handlers and the cleanup task exist
started == service = "constructed"

\* an upload coroutine that is not running
Idle == [pc |-> "idle"]

\* no response sent yet
NoReply == [op |-> "none", status |-> 0, detail |-> ""]

\* the response sent last did not reject an upload with a 409
NoRequest == << >>

\* a response other than a 409 to an upload
respond(r) == reply' = r /\ rejected' = NoRequest

\* the empty dict / the empty directory
Empty == [x \in {} |-> 0]

\* f without the key k
Without(f, k) == [x \in DOMAIN f \ {k} |-> f[x]]
\* f with k bound to v
With(f, k, v) == [x \in DOMAIN f \cup {k} |-> IF x = k THEN v ELSE f[x]]

-----------------------------------------------------------------------------
(* Session ledger: StorageService, lines 67-129 *)

\* faulty is_duplicate_in_session: the hash is looked up under the file name
\* instead of in the session's set of hashes
is_duplicate_in_session_by_name(session_id, file_hash, filename) ==
    IF session_id \notin DOMAIN session_filename_hashes
    THEN <<FALSE, FALSE>>
    ELSE <<filename \in DOMAIN session_filename_hashes[session_id]
              /\ session_filename_hashes[session_id][filename] = file_hash,
           filename \in DOMAIN session_filename_hashes[session_id]
              /\ session_filename_hashes[session_id][filename] # file_hash>>

\* faulty is_duplicate_in_session: the file name is never looked up
is_duplicate_in_session_hash_only(session_id, file_hash, filename) ==
    IF session_id \notin DOMAIN session_file_hashes
    THEN <<FALSE, FALSE>>
    ELSE <<file_hash \in session_file_hashes[session_id], FALSE>>

\* faulty is_duplicate_in_session: the hash is looked up in the sets of all
\* sessions
is_duplicate_in_session_any_session(session_id, file_hash, filename) ==
    IF session_id \notin DOMAIN session_file_hashes
          /\ \A r \in DOMAIN session_file_hashes : file_hash \notin session_file_hashes[r]
    THEN <<FALSE, FALSE>>
    ELSE <<\E r \in DOMAIN session_file_hashes : file_hash \in session_file_hashes[r],
           /\ session_id \in DOMAIN session_filename_hashes
           /\ filename \in DOMAIN session_filename_hashes[session_id]
           /\ session_filename_hashes[session_id][filename] # file_hash>>

\* is_duplicate_in_session: <<is_duplicate_hash, is_same_name_different_content>>
is_duplicate_in_session(session_id, file_hash, filename) ==
    IF session_id \notin DOMAIN session_file_hashes
    THEN <<FALSE, FALSE>>
    ELSE <<file_hash \in session_file_hashes[session_id],
           /\ session_id \in DOMAIN session_filename_hashes
           /\ filename \in DOMAIN session_filename_hashes[session_id]
           /\ session_filename_hashes[session_id][filename] # file_hash>>

\* faulty add_file_to_session: the session's set of hashes is assigned the
\* new hash instead of being added to
add_file_to_session_replacing_hashes(session_id, file_hash, filename) ==
    LET ns == IF session_id \in DOMAIN session_filename_hashes
              THEN session_filename_hashes[session_id] ELSE Empty
    IN /\ session_file_hashes' = With(session_file_hashes, session_id, {file_hash})
       /\ session_filename_hashes' =
              With(session_filename_hashes, session_id, With(ns, filename, file_hash))

\* add_file_to_session
add_file_to_session(session_id, file_hash, filename) ==
    LET hs == IF session_id \in DOMAIN session_file_hashes
              THEN session_file_hashes[session_id] ELSE {}
        ns == IF session_id \in DOMAIN session_filename_hashes
              THEN session_filename_hashes[session_id] ELSE Empty
    IN /\ session_file_hashes' =
              With(session_file_hashes, session_id, hs \cup {file_hash})
       /\ session_filename_hashes' =
              With(session_filename_hashes, session_id, With(ns, filename, file_hash))

\* faulty clear_session: the session's set of hashes is kept
clear_session_keeping_hashes(session_id) ==
    /\ UNCHANGED session_file_hashes
    /\ session_filename_hashes' = Without(session_filename_hashes, session_id)

\* faulty clear_session: the tracking of every session is dropped
clear_session_all(session_id) ==
    /\ session_file_hashes' = Empty
    /\ session_filename_hashes' = Empty

\* clear_session
clear_session(session_id) ==
    /\ session_file_hashes' = Without(session_file_hashes, session_id)
    /\ session_filename_hashes' = Without(session_filename_hashes, session_id)

\* get_session_file_count
get_session_file_count(session_id) ==
    IF session_id \notin DOMAIN session_file_hashes
    THEN 0
    ELSE Cardinality(session_file_hashes[session_id])

\* faulty remove_file_from_session: the hash stays in the session's set
remove_file_from_session_keeping_hash(session_id, filename, ret) ==
    IF session_id \notin DOMAIN session_filename_hashes
    THEN ret = FALSE /\ UNCHANGED ledger
    ELSE IF filename \notin DOMAIN session_filename_hashes[session_id]
    THEN ret = FALSE /\ UNCHANGED ledger
    ELSE /\ ret = TRUE
         /\ UNCHANGED session_file_hashes
         /\ session_filename_hashes' =
                [session_filename_hashes EXCEPT
                    ![session_id] = Without(@, filename)]

\* remove_file_from_session; ret is the value it returns
remove_file_from_session(session_id, filename, ret) ==
    IF session_id \notin DOMAIN session_filename_hashes
    THEN ret = FALSE /\ UNCHANGED ledger
    ELSE IF filename \notin DOMAIN session_filename_hashes[session_id]
    THEN ret = FALSE /\ UNCHANGED ledger
    ELSE LET file_hash == session_filename_hashes[session_id][filename]
         IN /\ ret = TRUE
            /\ session_file_hashes' =
                   IF session_id \in DOMAIN session_file_hashes
                   THEN [session_file_hashes EXCEPT ![session_id] = @ \ {file_hash}]
                   ELSE session_file_hashes
            /\ session_filename_hashes' =
                   [session_filename_hashes EXCEPT
                       ![session_id] = Without(@, filename)]

-----------------------------------------------------------------------------
(* Content store *)

\* faulty _generate_unique_filename: the uuid4 is left out, the name is made
\* of the timestamp and the original suffix
generate_unique_filename_without_uuid(original_filename) ==
    [id |-> now + 1, ext |-> Suffix(original_filename)]

\* _generate_unique_filename: timestamp, uuid4 and the original suffix
generate_unique_filename(original_filename) ==
    [id |-> uuids + 1, ext |-> Suffix(original_filename)]

\* the upload time that a sweep finds for a stored name: the JSON of the
\* sidecar (local) or the upload_time entry of the object's metadata (s3)
has_upload_time(metadata) == metadata # NoMetadata

\* the file name of the sidecar of a stored name: f"{filename}.meta"
MetaName(filename) == [id |-> filename.id, ext |-> filename.ext \o ".meta"]

\* (local_upload_dir / filename).exists(): the directory holds the blobs and
\* the sidecars
exists(filename) ==
    \/ filename \in DOMAIN files
    \/ \E n \in DOMAIN metafiles : filename = MetaName(n)

\* the bytes of the file of that name in local_upload_dir
read(filename) ==
    IF filename \in DOMAIN files
    THEN files[filename]
    ELSE LET n == CHOOSE n \in DOMAIN metafiles : filename = MetaName(n)
         IN IF has_upload_time(metafiles[n]) THEN "json" ELSE ""

\* the None that get_file returns
None == [id |-> 0, ext |-> "None"]

\* faulty get_file: the path is returned whether or not the file exists
get_file_unchecked(filename) ==
    IF is_local_storage THEN filename ELSE None

\* get_file: the path when the file exists (local), None otherwise
get_file(filename) ==
    IF is_local_storage
    THEN IF exists(filename) THEN filename ELSE None
    ELSE None

\* _delete_local; failed names the unlink that raises ("none", "blob", "meta").
\* file_path is unlinked when it exists (a blob, or a sidecar when the name
\* given is the file name of a sidecar), then the sidecar of the name
delete_local(filename, failed) ==
    /\ files' = IF filename \in DOMAIN files /\ failed # "blob"
                THEN Without(files, filename) ELSE files
    /\ metafiles' = IF filename \in DOMAIN metafiles /\ failed = "none"
                    THEN Without(metafiles, filename)
                    ELSE IF failed # "blob"
                    THEN [n \in {m \in DOMAIN metafiles : filename # MetaName(m)} |->
                             metafiles[n]]
                    ELSE metafiles

\* faulty _delete_local: False is returned when there was nothing to unlink
delete_local_returns_removed(filename, failed) ==
    /\ exists(filename) \/ filename \in DOMAIN metafiles
    /\ ~(failed = "blob" /\ exists(filename))
    /\ ~(failed # "none" /\ filename \in DOMAIN metafiles)

\* the value _delete_local returns: True unless an unlink raised
delete_local_returns(filename, failed) ==
    /\ ~(failed = "blob" /\ exists(filename))
    /\ ~(failed # "none" /\ filename \in DOMAIN metafiles)

\* _delete_s3: delete_object, which succeeds for a key that does not exist;
\* ok is whether the call returns without a ClientError
delete_s3(filename, ok) ==
    s3_objects' = IF ok /\ filename \in DOMAIN s3_objects
                  THEN Without(s3_objects, filename) ELSE s3_objects

\* faulty comparison of the sweeps: an upload time equal to the cutoff expires
older_than_cutoff_or_equal(upload_time, cutoff_time) == upload_time <= cutoff_time

\* upload_time < cutoff_time of the two sweeps
older_than_cutoff(upload_time, cutoff_time) == upload_time < cutoff_time

\* faulty cutoff: the current hour counts as elapsed
cutoff_rounded_up == now + 1 - auto_delete_hours

\* datetime.now() - timedelta(hours=auto_delete_hours)
cutoff == now - auto_delete_hours

-----------------------------------------------------------------------------
Init ==
    /\ storage_type \in {"local", "s3"}
    /\ auto_delete_hours \in 0..MaxTTL
    /\ environment \in SUBSET Environment
    /\ service = StorageService
    /\ now = 0
    /\ session_file_hashes = Empty
    /\ session_filename_hashes = Empty
    /\ files = Empty
    /\ metafiles = Empty
    /\ s3_objects = Empty
    /\ uuids = 0
    /\ procs = [p \in Procs |-> Idle]
    /\ task = [pc |-> "sleep", wake_at |-> 0]
    /\ stop = FALSE
    /\ manual = Idle
    /\ swept = Empty
    /\ reply = NoReply
    /\ accepted = [s \in Sessions |-> {}]
    /\ cleared = [s \in Sessions |-> {}]
    /\ rejected = NoRequest

\* the clock advances
Tick ==
    /\ now < MaxTime
    /\ now' = now + 1
    /\ UNCHANGED <<config, ledger, store, uuids, procs, sweeper, response, history>>

-----------------------------------------------------------------------------
(* POST /upload: upload_file, save_file_with_duplicate_check, save_file *)

\* faulty save_file_with_duplicate_check: the name conflict is tested first
duplicate_check_name_first(session_id, file_hash, filename) ==
    LET d == is_duplicate_in_session(session_id, file_hash, filename)
    IN IF d[2] THEN "NameConflict"
       ELSE IF d[1] THEN "HashDuplicate"
       ELSE "None"

\* save_file_with_duplicate_check, lines 161-167: the rejection it returns
duplicate_check(session_id, file_hash, filename) ==
    LET d == is_duplicate_in_session(session_id, file_hash, filename)
    IN IF d[1] THEN "HashDuplicate"
       ELSE IF d[2] THEN "NameConflict"
       ELSE "None"

\* the 409 responses of upload_file
Conflict(kind) == [op |-> "upload", status |-> 409, detail |-> kind]
\* the 500 response of upload_file; detail names the call that raised
Failed(what) == [op |-> "upload", status |-> 500, detail |-> what]
\* the 200 response of upload_file
Uploaded == [op |-> "upload", status |-> 200, detail |-> ""]

\* main.py 131-179: geometry analysis (and conversion) of the saved upload;
\* parsed is whether the external mesh library could analyse the bytes
process_upload(parsed) ==
    respond(IF parsed THEN Uploaded ELSE Failed("analysis"))

\* faulty save_file: the upload is tracked whether or not a session id is
\* given
track_in_session_always(session_id, file_content, filename) ==
    /\ add_file_to_session(session_id, calculate_file_hash(file_content), filename)
    /\ IF session_id # NoSession
       THEN /\ accepted' = [accepted EXCEPT
                               ![session_id] = @ \cup {<<file_content, filename>>}]
            /\ cleared' = [cleared EXCEPT ![session_id] = {}]
       ELSE UNCHANGED history

\* save_file, lines 146-148: the upload is tracked when a session id is given
track_in_session(session_id, file_content, filename) ==
    IF session_id # NoSession
    THEN /\ add_file_to_session(session_id,
                                save_file_hash(session_id, file_content), filename)
         /\ accepted' = [accepted EXCEPT
                            ![session_id] = @ \cup {<<file_content, filename>>}]
         /\ cleared' = [cleared EXCEPT ![session_id] = {}]
    ELSE UNCHANGED <<ledger, history>>

\* _save_s3 (blocking boto3 calls) followed by the rest of save_file and of
\* upload_file; put_ok is whether upload_fileobj and generate_presigned_url
\* succeed
save_file_s3(session_id, filename, file_content, unique_filename, put_ok, parsed) ==
    /\ UNCHANGED <<files, metafiles, procs>>
    /\ IF put_ok
       THEN /\ s3_objects' = With(s3_objects, unique_filename,
                                  [body |-> save_file_writes(session_id, file_content),
                                   metadata |-> Metadata(now)])
            /\ track_in_session(session_id, file_content, filename)
            /\ process_upload(parsed)
       ELSE /\ UNCHANGED <<s3_objects, ledger, history>>
            /\ respond(Failed("store"))

\* faulty save_file: the upload is tracked before _save_local is called
save_file_local_tracking_first(p, session_id, filename, file_content, unique_filename) ==
    /\ procs' = [procs EXCEPT ![p] =
                    [pc |-> "blob_open", session_id |-> session_id,
                     filename |-> filename, content |-> file_content,
                     stored_filename |-> unique_filename]]
    /\ track_in_session(session_id, file_content, filename)
    /\ UNCHANGED <<store, response>>

\* save_file up to the first suspension of _save_local (aiofiles.open)
save_file_local(p, session_id, filename, file_content, unique_filename) ==
    /\ procs' = [procs EXCEPT ![p] =
                    [pc |-> "blob_open", session_id |-> session_id,
                     filename |-> filename, content |-> file_content,
                     stored_filename |-> unique_filename]]
    /\ UNCHANGED <<store, ledger, response, history>>

\* save_file, lines 137-144
save_file(p, session_id, filename, file_content, put_ok, parsed) ==
    /\ uuids < MaxObjects
    /\ uuids' = uuids + 1
    /\ LET unique_filename == generate_unique_filename(filename)
       IN IF is_local_storage
          THEN save_file_local(p, session_id, filename, file_content, unique_filename)
          ELSE save_file_s3(session_id, filename, file_content, unique_filename,
                            put_ok, parsed)

\* faulty save_file_with_duplicate_check: the unique name is generated
\* before the duplicate check
reject_after_naming(kind) ==
    /\ reply' = Conflict(kind)
    /\ uuids < MaxObjects
    /\ uuids' = uuids + 1
    /\ UNCHANGED <<ledger, store, procs, history>>

\* save_file_with_duplicate_check, lines 163-167, and upload_file, lines
\* 116-126: the upload is rejected with a 409 before save_file is called
reject(kind) ==
    /\ reply' = Conflict(kind)
    /\ UNCHANGED <<ledger, store, uuids, procs, history>>

\* faulty upload_file: an upload without a session id is checked and
\* registered in a session that all such uploads share
upload_file_default_session(p, session_id, filename, file_content, put_ok, parsed) ==
    /\ started
    /\ procs[p].pc = "idle"
    /\ UNCHANGED <<config, now, sweeper>>
    /\ LET shared == IF session_id = NoSession THEN "s1" ELSE session_id
       IN IF Suffix(filename) \notin allowed_extensions
          THEN /\ respond([op |-> "upload", status |-> 400, detail |-> "type"])
               /\ UNCHANGED <<ledger, store, uuids, procs, history>>
          ELSE IF duplicate_check(shared, calculate_file_hash(file_content),
                                  filename) # "None"
          THEN /\ rejected' = <<session_id, filename, file_content>>
               /\ reject(duplicate_check(shared,
                             calculate_file_hash(file_content), filename))
          ELSE save_file(p, shared, filename, file_content, put_ok, parsed)

\* upload_file up to its first suspension (the whole of it in s3 mode)
upload_file(p, session_id, filename, file_content, put_ok, parsed) ==
    /\ started
    /\ procs[p].pc = "idle"
    /\ UNCHANGED <<config, now, sweeper>>
    /\ IF Suffix(filename) \notin allowed_extensions
       THEN /\ respond([op |-> "upload", status |-> 400, detail |-> "type"])
            /\ UNCHANGED <<ledger, store, uuids, procs, history>>
       ELSE IF session_id # NoSession
               /\ duplicate_check(session_id, calculate_file_hash(file_content),
                                  filename) # "None"
       THEN /\ rejected' = <<session_id, filename, file_content>>
            /\ reject(duplicate_check(session_id,
                          calculate_file_hash(file_content), filename))
       ELSE save_file(p, session_id, filename, file_content, put_ok, parsed)

\* an aiofiles call of _save_local raised: the upload ends with a 500
save_local_failed(p) ==
    /\ procs' = [procs EXCEPT ![p] = Idle]
    /\ respond(Failed("store"))

\* _save_local, line 179: aiofiles.open(file_path, 'wb') creates the blob file
save_local_blob_open(p, ok) ==
    /\ procs[p].pc = "blob_open"
    /\ UNCHANGED <<config, now, sweeper, ledger, uuids, metafiles, s3_objects, history>>
    /\ IF ok
       THEN /\ files' = With(files, procs[p].stored_filename, Partial)
            /\ procs' = [procs EXCEPT ![p].pc = "blob_write"]
            /\ UNCHANGED response
       ELSE /\ UNCHANGED files
            /\ save_local_failed(p)

\* _save_local, lines 180-188: the write and close of the blob, then the
\* metadata with datetime.now()
save_local_blob_write(p, ok) ==
    /\ procs[p].pc = "blob_write"
    /\ UNCHANGED <<config, now, sweeper, ledger, uuids, metafiles, s3_objects, history>>
    /\ IF ok
       THEN /\ files' = With(files, procs[p].stored_filename,
                                 save_file_writes(procs[p].session_id, procs[p].content))
            /\ procs' = [procs EXCEPT ![p] =
                            [pc |-> "meta_open", session_id |-> @.session_id,
                             filename |-> @.filename, content |-> @.content,
                             stored_filename |-> @.stored_filename,
                             upload_time |-> now]]
            /\ UNCHANGED response
       ELSE /\ UNCHANGED files
            /\ save_local_failed(p)

\* _save_local, line 190: aiofiles.open(metadata_path, 'w') creates the sidecar
save_local_meta_open(p, ok) ==
    /\ procs[p].pc = "meta_open"
    /\ UNCHANGED <<config, now, sweeper, ledger, uuids, files, s3_objects, history>>
    /\ IF ok
       THEN /\ metafiles' = With(metafiles, procs[p].stored_filename, NoMetadata)
            /\ procs' = [procs EXCEPT ![p].pc = "meta_write"]
            /\ UNCHANGED response
       ELSE /\ UNCHANGED metafiles
            /\ save_local_failed(p)

\* _save_local, lines 190-192: the write and close of the sidecar
save_local_meta_write(p, ok) ==
    /\ procs[p].pc = "meta_write"
    /\ UNCHANGED <<config, now, sweeper, ledger, uuids, files, s3_objects, history>>
    /\ IF ok
       THEN /\ metafiles' = With(metafiles, procs[p].stored_filename,
                                 Metadata(procs[p].upload_time))
            /\ procs' = [procs EXCEPT ![p].pc = "saved"]
            /\ UNCHANGED response
       ELSE /\ UNCHANGED metafiles
            /\ save_local_failed(p)

\* save_file, lines 146-150, after _save_local returned, and the rest of
\* upload_file
save_file_return(p, parsed) ==
    /\ procs[p].pc = "saved"
    /\ UNCHANGED <<config, now, sweeper, store, uuids>>
    /\ track_in_session(procs[p].session_id, procs[p].content, procs[p].filename)
    /\ procs' = [procs EXCEPT ![p] = Idle]
    /\ process_upload(parsed)

-----------------------------------------------------------------------------
(* The session endpoints of main.py *)

\* the <<content, filename>> pairs registered in a session
Registered(session_id) ==
    IF session_id \notin DOMAIN session_filename_hashes
    THEN {}
    ELSE {cf \in Contents \X Filenames :
             /\ cf[2] \in DOMAIN session_filename_hashes[session_id]
             /\ session_filename_hashes[session_id][cf[2]] = calculate_file_hash(cf[1])}

\* the response of clear_session: its message names the session
SessionCleared(session_id) == [op |-> "clear", status |-> 200, detail |-> session_id]

\* faulty clear_session endpoint: the upload directory and the bucket are
\* emptied with the session
clear_session_endpoint_purging(session_id) ==
    /\ started
    /\ clear_session(session_id)
    /\ respond(SessionCleared(session_id))
    /\ accepted' = [accepted EXCEPT ![session_id] = {}]
    /\ cleared' = [cleared EXCEPT ![session_id] = Registered(session_id)]
    /\ files' = Empty /\ metafiles' = Empty /\ s3_objects' = Empty
    /\ UNCHANGED <<config, now, sweeper, uuids, procs>>

\* POST /session/clear
clear_session_endpoint(session_id) ==
    /\ started
    /\ clear_session(session_id)
    /\ respond(SessionCleared(session_id))
    /\ accepted' = [accepted EXCEPT ![session_id] = {}]
    /\ cleared' = [cleared EXCEPT ![session_id] = Registered(session_id)]
    /\ UNCHANGED <<config, now, sweeper, store, uuids, procs>>

\* DELETE /session/{session_id}/file/{filename}
remove_file_from_cart(session_id, filename) ==
    /\ started
    /\ \E success \in BOOLEAN :
          /\ remove_file_from_session(session_id, filename, success)
          /\ respond([op |-> "remove",
                       status |-> IF success THEN 200 ELSE 404, detail |-> ""])
          /\ accepted' = IF success THEN [accepted EXCEPT ![session_id] = {}]
                         ELSE accepted
    /\ UNCHANGED <<config, now, sweeper, store, uuids, procs, cleared>>

\* GET /session/{session_id}/info
get_session_info(session_id) ==
    /\ started
    /\ respond([op |-> "info", status |-> 200,
                detail |-> ToString(get_session_file_count(session_id))])
    /\ UNCHANGED <<config, now, ledger, store, uuids, procs, sweeper, history>>

\* the attributes that StorageConfig.__init__ sets
StorageConfigAttributes ==
    {"storage_type", "local_upload_dir", "auto_delete_hours", "s3_bucket_name",
     "s3_region", "aws_access_key_id", "aws_secret_access_key"}

\* the body of the response of storage_info: the mode, the retention time and
\* the directory (local) or the bucket (s3)
StorageInfo(where) ==
    [op |-> "storage_info", status |-> 200,
     detail |-> storage_type \o ":" \o ToString(auto_delete_hours) \o ":" \o where]

\* GET /storage/info: the dict is built from attributes of storage_config;
\* reading an attribute that StorageConfig does not have raises an
\* AttributeError, which nothing catches
storage_info ==
    /\ started
    /\ respond(IF is_local_storage
               THEN IF "local_upload_dir" \in StorageConfigAttributes
                    THEN StorageInfo("local_upload_dir")
                    ELSE [op |-> "storage_info", status |-> 500, detail |-> "AttributeError"]
               ELSE IF "s3_bucket" \in StorageConfigAttributes
                    THEN StorageInfo("s3_bucket")
                    ELSE [op |-> "storage_info", status |-> 500, detail |-> "AttributeError"])
    /\ UNCHANGED <<config, now, ledger, store, uuids, procs, sweeper, history>>

\* the value that delete_file returned to its caller
Returned(value) ==
    [op |-> "delete_file", status |-> 0, detail |-> IF value THEN "True" ELSE "False"]

\* StorageService.delete_file, called with a stored name; failed names the
\* call that raises: an unlink ("blob", "meta"), delete_object ("s3"), "none"
delete_file(filename, failed) ==
    /\ started
    /\ IF is_local_storage
       THEN /\ failed # "s3"
            /\ delete_local(filename, failed)
            /\ UNCHANGED s3_objects
            /\ respond(Returned(delete_local_returns(filename, failed)))
       ELSE /\ failed \in {"none", "s3"}
            /\ delete_s3(filename, failed = "none")
            /\ UNCHANGED <<files, metafiles>>
            /\ respond(Returned(failed = "none"))
    /\ UNCHANGED <<config, now, ledger, uuids, procs, sweeper, history>>

\* the responses of download_file: the 200 carries the bytes of the file
Downloaded(body) == [op |-> "download", status |-> 200, detail |-> body]
NotFound == [op |-> "download", status |-> 404, detail |-> "File not found"]
NotImplemented == [op |-> "download", status |-> 501, detail |-> "not implemented"]

\* faulty download_file: get_file is called in both modes
download_file_any_backend(filename) ==
    /\ started
    /\ respond(IF get_file(filename) = None THEN NotFound
               ELSE Downloaded(read(get_file(filename))))
    /\ UNCHANGED <<config, now, ledger, store, uuids, procs, sweeper, history>>

\* GET /download/{filename}
download_file(filename) ==
    /\ started
    /\ respond(IF is_local_storage
               THEN IF get_file(filename) = None \/ ~exists(get_file(filename))
                    THEN NotFound
                    ELSE Downloaded(read(get_file(filename)))
               ELSE NotImplemented)
    /\ UNCHANGED <<config, now, ledger, store, uuids, procs, sweeper, history>>

-----------------------------------------------------------------------------
(* cleanup_task and cleanup_old_files *)

\* faulty cleanup_task: the sleep is twice the interval
SleepingTwice == [pc |-> "sleep", wake_at |-> now + 2 * SleepHours]

\* await asyncio.sleep(3600)
Sleeping == [pc |-> "sleep", wake_at |-> now + SleepHours]

\* faulty sweep: a stored name without an upload time counts as expired
sweep_outcome_expiring_untimed(metadata, cutoff_time, delete_ok) ==
    IF ~has_upload_time(metadata) \/ older_than_cutoff(metadata[1], cutoff_time)
    THEN IF delete_ok THEN "deleted" ELSE "error"
    ELSE "kept"

\* what a sweep does with a stored name, given the metadata it finds
\* (the JSON of the sidecar, or the Metadata of head_object) and its cutoff:
\* "skipped" without an upload time, "deleted" when the upload time is older
\* than the cutoff and the delete succeeds ("error" when it fails), "kept"
\* otherwise
sweep_outcome(metadata, cutoff_time, delete_ok) ==
    IF ~has_upload_time(metadata) THEN "skipped"
    ELSE IF ~older_than_cutoff(metadata[1], cutoff_time) THEN "kept"
    ELSE IF delete_ok THEN "deleted"
    ELSE "error"

\* no key: every head_object call of the pass succeeds
NoKey == [id |-> 0, ext |-> ""]

\* list_objects_v2 lists the keys in their order; the stored names begin with
\* the time of the upload, so the order in which they were handed out
listed_before(k, j) == k.id < j.id

\* _cleanup_s3_files: one blocking pass over the listed objects, in the order
\* of the listing.  The try of lines 303-323 encloses the loop, so a failing
\* head_object ends the pass (a ClientError is logged in _cleanup_s3_files,
\* any other exception in cleanup_task) and the keys listed after it are not
\* reached; a failing delete_object is logged in _delete_s3 and the loop goes
\* on.  head_failed is the key whose head_object call raises (NoKey: none),
\* failing is the set of keys whose delete_object call fails
cleanup_s3_files(head_failed, failing) ==
    LET outcome == [k \in DOMAIN s3_objects |->
                       IF k = head_failed THEN "error"
                       ELSE IF head_failed # NoKey /\ listed_before(head_failed, k)
                       THEN "unreached"
                       ELSE sweep_outcome(s3_objects[k].metadata, cutoff,
                                          k \notin failing)]
        expired == {k \in DOMAIN outcome : outcome[k] = "deleted"}
    IN /\ s3_objects' = [k \in DOMAIN s3_objects \ expired |-> s3_objects[k]]
       /\ swept' = outcome
       /\ UNCHANGED <<files, metafiles>>

\* faulty cleanup_task: an exception of cleanup_old_files ends the loop
cleanup_task_failed_exiting == [pc |-> "done"]

\* cleanup_task, lines 31-33: an exception of cleanup_old_files is printed
\* and the loop sleeps as after a sweep that returned
cleanup_task_failed == Sleeping

\* cleanup_task wakes up and calls cleanup_old_files; in local mode it runs
\* to the first aiofiles.open of _cleanup_local_files, unless the listing of
\* the directory raises
cleanup_task_run ==
    /\ started
    /\ ~stop
    /\ task.pc = "sleep"
    /\ now >= task.wake_at
    /\ UNCHANGED <<config, now, ledger, uuids, procs, response, history, stop,
                   manual>>
    /\ IF is_local_storage
       THEN /\ \E raised \in BOOLEAN :
                  IF raised
                  THEN /\ DOMAIN metafiles # {}
                       /\ task' = cleanup_task_failed
                       /\ swept' = [n \in DOMAIN metafiles |-> "error"]
                  ELSE /\ task' = IF DOMAIN metafiles = {}
                                  THEN Sleeping
                                  ELSE [pc |-> "scan", cutoff_time |-> cutoff,
                                        pending |-> DOMAIN metafiles]
                       /\ swept' = Empty
            /\ UNCHANGED store
       ELSE \E head_failed \in DOMAIN s3_objects \cup {NoKey},
               failing \in SUBSET DOMAIN s3_objects :
               /\ cleanup_s3_files(head_failed, failing)
               /\ task' = IF head_failed = NoKey THEN Sleeping ELSE cleanup_task_failed

\* _cleanup_local_files, lines 285-299, for one *.meta file of the glob;
\* readable is whether the sidecar can be opened and read, failed names the
\* unlink of _delete_local that raises
cleanup_local_file(filename, readable, failed) ==
    /\ ~stop
    /\ task.pc = "scan"
    /\ filename \in task.pending
    /\ UNCHANGED <<config, now, ledger, uuids, procs, response, s3_objects,
                   history, stop, manual>>
    /\ LET found == readable /\ filename \in DOMAIN metafiles
           outcome == IF found
                      THEN sweep_outcome(metafiles[filename], task.cutoff_time,
                                         failed = "none")
                      ELSE "error"
       IN /\ IF found /\ outcome \in {"deleted", "error"}
             THEN delete_local(filename, failed)
             ELSE UNCHANGED <<files, metafiles>>
          /\ swept' = With(swept, filename, outcome)
    /\ task' = IF task.pending = {filename}
               THEN Sleeping
               ELSE [task EXCEPT !.pending = @ \ {filename}]

\* the responses of manual_cleanup
Cleaned == [op |-> "cleanup", status |-> 200, detail |-> "Cleanup completed successfully"]
CleanupFailed == [op |-> "cleanup", status |-> 500, detail |-> "Cleanup failed"]

\* POST /admin/cleanup: cleanup_old_files run by the request; in local mode
\* up to the first aiofiles.open of _cleanup_local_files.  An exception that
\* leaves cleanup_old_files (the listing of the directory, a call of boto3
\* that raises something other than a ClientError) is answered with a 500
manual_cleanup ==
    /\ started
    /\ manual.pc = "idle"
    /\ UNCHANGED <<config, now, ledger, uuids, procs, task, stop, swept, history>>
    /\ IF is_local_storage
       THEN /\ UNCHANGED store
            /\ \E raised \in BOOLEAN :
                  IF raised
                  THEN /\ UNCHANGED manual
                       /\ respond(CleanupFailed)
                  ELSE IF DOMAIN metafiles = {}
                  THEN /\ UNCHANGED manual
                       /\ respond(Cleaned)
                  ELSE /\ manual' = [pc |-> "scan", cutoff_time |-> cutoff,
                                     pending |-> DOMAIN metafiles]
                       /\ UNCHANGED response
       ELSE \E failing \in SUBSET DOMAIN s3_objects, raised \in BOOLEAN :
               /\ raised => failing # {}
               /\ LET outcome == [k \in DOMAIN s3_objects \ failing |->
                                     sweep_outcome(s3_objects[k].metadata, cutoff, TRUE)]
                  IN s3_objects' = [k \in {x \in DOMAIN s3_objects :
                                              x \in failing \/ outcome[x] # "deleted"}
                                       |-> s3_objects[k]]
               /\ UNCHANGED <<files, metafiles, manual>>
               /\ respond(IF raised THEN CleanupFailed ELSE Cleaned)

\* _cleanup_local_files run by manual_cleanup, for one *.meta file of the glob
manual_cleanup_file(filename, readable, failed) ==
    /\ manual.pc = "scan"
    /\ filename \in manual.pending
    /\ UNCHANGED <<config, now, ledger, uuids, procs, task, stop, swept,
                   s3_objects, history>>
    /\ LET found == readable /\ filename \in DOMAIN metafiles
           outcome == IF found
                      THEN sweep_outcome(metafiles[filename], manual.cutoff_time,
                                         failed = "none")
                      ELSE "error"
       IN IF found /\ outcome \in {"deleted", "error"}
          THEN delete_local(filename, failed)
          ELSE UNCHANGED <<files, metafiles>>
    /\ IF manual.pending = {filename}
       THEN manual' = Idle /\ respond(Cleaned)
       ELSE manual' = [manual EXCEPT !.pending = @ \ {filename}] /\ UNCHANGED response

\* lifespan after the yield: cleanup_task_handle.cancel().  The task is
\* suspended in asyncio.sleep or in an aiofiles call of _cleanup_local_files
lifespan_shutdown ==
    /\ started
    /\ ~stop
    /\ stop' = TRUE
    /\ UNCHANGED <<config, now, ledger, store, uuids, procs, task, swept,
                   manual, response, history>>

\* the CancelledError is raised in the task where it is suspended; it is not
\* an Exception, so neither except clause catches it and the task ends
cleanup_task_cancelled ==
    /\ stop
    /\ task.pc # "done"
    /\ task' = [pc |-> "done"]
    /\ UNCHANGED <<config, now, ledger, store, uuids, procs, stop, swept,
                   manual, response, history>>

\* another writer of the bucket puts an object that carries no upload_time
\* metadata; the model gives it the next stored name
put_untagged ==
    /\ is_s3_storage
    /\ uuids < MaxObjects
    /\ uuids' = uuids + 1
    /\ s3_objects' = With(s3_objects, [id |-> uuids + 1, ext |-> ""],
                          [body |-> "other", metadata |-> NoMetadata])
    /\ UNCHANGED <<config, now, ledger, files, metafiles, procs, sweeper,
                   response, history>>

-----------------------------------------------------------------------------
(* Specifications *)

\* the outcomes of the calls that upload_file makes in its first step in s3
\* mode only (upload_fileobj, the analysis): they succeed or raise
S3Outcomes == IF is_s3_storage THEN BOOLEAN ELSE {TRUE}

\* a new request is run by the first coroutine that is free
FirstFree(P) ==
    IF "u1" \in P /\ procs["u1"].pc = "idle" THEN {"u1"}
    ELSE {p \in P : procs[p].pc = "idle"}

\* the steps of the upload requests run by the coroutines P, with session
\* ids from S, file names from F and bytes from C
Upload(P, S, F, C) ==
    \/ \E p \in FirstFree(P), s \in S, f \in F, c \in C,
          put_ok \in S3Outcomes, parsed \in S3Outcomes :
          upload_file(p, s, f, c, put_ok, parsed)
    \/ \E p \in P, ok \in BOOLEAN : save_local_blob_open(p, ok)
    \/ \E p \in P, ok \in BOOLEAN : save_local_blob_write(p, ok)
    \/ \E p \in P, ok \in BOOLEAN : save_local_meta_open(p, ok)
    \/ \E p \in P, ok \in BOOLEAN : save_local_meta_write(p, ok)
    \/ \E p \in P, parsed \in BOOLEAN : save_file_return(p, parsed)

\* the session endpoints, with session ids from S
SessionRequest(S) ==
    \/ \E s \in S : clear_session_endpoint(s)
    \/ \E s \in S, f \in Filenames : remove_file_from_cart(s, f)

\* the cleanup task
Cleanup ==
    \/ cleanup_task_run
    \/ \E n \in (IF task.pc = "scan" THEN task.pending ELSE {}),
          readable \in BOOLEAN, failed \in {"none", "blob", "meta"} :
          cleanup_local_file(n, readable, failed)

\* the whole system
Next ==
    \/ Tick
    \/ Upload(Procs, Sessions \cup {NoSession}, Filenames, Contents)
    \/ SessionRequest(Sessions)
    \/ Cleanup
    \/ put_untagged

Spec == Init /\ [][Next]_vars

\* every setting of the S3 backend is present
Complete == environment = Environment

\* the time-to-live is read by the sweeps only
InitLedger == Init /\ auto_delete_hours = 0 /\ Complete

\* concurrent requests on the ledger of one session, in every interleaving
NextLedger ==
    \/ Upload(Procs, {"s1"}, Filenames, Contents)
    \/ SessionRequest({"s1"})

SpecLedger == InitLedger /\ [][NextLedger]_vars

\* no upload is in flight
Quiet == \A p \in Procs : procs[p].pc = "idle"

\* one request at a time, on any session: a request starts when the one
\* before it has completed
NextSerial ==
    \/ Upload({"u1"}, Sessions, Filenames, Contents)
    \/ Quiet /\ SessionRequest(Sessions)

SpecSerial == InitLedger /\ [][NextSerial]_vars

\* concurrent requests on the ledgers of two sessions, in every
\* interleaving: one upload at a time into each session, of two contents
\* under one file name, and clears and removals at any time
NextApart ==
    \/ Upload({"u1"}, {"s1"}, {<<"cube", ".stl">>}, Contents)
    \/ Upload({"u2"}, {"s2"}, {<<"cube", ".stl">>}, Contents)
    \/ \E s \in Sessions : clear_session_endpoint(s)
    \/ \E s \in Sessions : remove_file_from_cart(s, <<"cube", ".stl">>)

SpecApart == InitLedger /\ [][NextApart]_vars

\* uploads of one file without a session, the clock and the cleanup task
NextSweep ==
    \/ Tick
    \/ Upload({"u1"}, {NoSession}, {<<"cube", ".stl">>}, {"X"})
    \/ Cleanup
    \/ put_untagged

InitSweep == Init /\ Complete

\* the manual cleanup requests
ManualCleanup ==
    \/ manual_cleanup
    \/ \E n \in (IF manual.pc = "scan" THEN manual.pending ELSE {}),
          readable \in BOOLEAN, failed \in {"none", "blob", "meta"} :
          manual_cleanup_file(n, readable, failed)

\* the cleanup task can take a step: its sleep is over or it is in a sweep
cleanup_due ==
    /\ started
    /\ ~stop
    /\ task.pc = "scan" \/ (task.pc = "sleep" /\ now >= task.wake_at)

\* the clock when the event loop is not held up: asyncio.sleep(3600) returns
\* when the hour is over and a sweep ends within the hour in which it started
TickTimed == ~cleanup_due /\ Tick

\* uploads of one file without a session, the cleanup task and the clock,
\* with sweeps that start on time
NextTimed ==
    \/ TickTimed
    \/ Upload({"u1"}, {NoSession}, {<<"cube", ".stl">>}, {"X"})
    \/ Cleanup
    \/ put_untagged

SpecTimed == InitSweep /\ [][NextTimed]_vars

\* the cleanup task and the shutdown of the application
Lifespan ==
    \/ Cleanup
    \/ lifespan_shutdown
    \/ cleanup_task_cancelled

\* uploads of one file without a session, the clock, the cleanup task and
\* the shutdown
NextLoop ==
    \/ Tick
    \/ Upload({"u1"}, {NoSession}, {<<"cube", ".stl">>}, {"X"})
    \/ Lifespan

\* the event loop runs the cleanup task whenever it can take a step (its
\* sleep is over, its aiofiles call has returned, it was cancelled), and the
\* clock goes on
FairLoop ==
    /\ WF_vars(Tick)
    /\ WF_vars(Cleanup)
    /\ WF_vars(cleanup_task_cancelled)

\* files are due for deletion as soon as they are an hour old
InitLoop == InitSweep /\ auto_delete_hours = 0

SpecLoop == InitLoop /\ [][NextLoop]_vars /\ FairLoop

SpecSweep == InitSweep /\ [][NextSweep]_vars

\* the names a request can carry for the stored names of the files F: those
\* handed out, one that never is, and the file names of their sidecars
Names(F) ==
    {[id |-> i, ext |-> x] :
        i \in 0..MaxObjects,
        x \in {Suffix(f) : f \in F} \cup {Suffix(f) \o ".meta" : f \in F}}

\* the requests on the content store by stored name: downloads, and the
\* calls of delete_file by a client of the service (main.py has none)
StoreRequest(F) ==
    \/ \E n \in Names(F) : download_file(n)
    \/ \E n \in Names(F), failed \in {"none", "blob", "meta", "s3"} :
          delete_file(n, failed)

\* uploads of two contents under one file name without a session and the
\* requests by stored name
NextStore ==
    \/ Upload({"u1"}, {NoSession}, {<<"cube", ".stl">>}, Contents)
    \/ StoreRequest({<<"cube", ".stl">>})

SpecStore == InitLedger /\ [][NextStore]_vars

\* no request and no sweep is under way
Calm == Quiet /\ manual = Idle /\ task.pc # "scan"

\* every kind of request and the sweeps, one at a time, on the ledgers of two
\* sessions: uploads of one file with or without a session id whose local
\* writes succeed, the session endpoints, downloads and deletions of the
\* stored names, the hour in which the uploads become older than the
\* retention time, and sweeps whose deletions succeed
NextFrame ==
    \/ Calm /\ now = 0 /\ Tick
    \/ Calm /\ \E s \in Sessions \cup {NoSession},
                  put_ok \in S3Outcomes, parsed \in S3Outcomes :
                  upload_file("u1", s, <<"cube", ".stl">>, "X", put_ok, parsed)
    \/ save_local_blob_open("u1", TRUE)
    \/ save_local_blob_write("u1", TRUE)
    \/ save_local_meta_open("u1", TRUE)
    \/ save_local_meta_write("u1", TRUE)
    \/ \E parsed \in BOOLEAN : save_file_return("u1", parsed)
    \/ Calm /\ \E r \in Sessions : clear_session_endpoint(r)
    \/ Calm /\ \E r \in Sessions : remove_file_from_cart(r, <<"cube", ".stl">>)
    \/ Calm /\ \E r \in Sessions : get_session_info(r)
    \/ Calm /\ \E n \in DOMAIN files \cup DOMAIN metafiles \cup DOMAIN s3_objects :
                  download_file(n)
    \/ Calm /\ \E n \in DOMAIN files \cup DOMAIN metafiles \cup DOMAIN s3_objects :
                  delete_file(n, "none")
    \/ Calm /\ cleanup_task_run
    \/ \E n \in (IF task.pc = "scan" THEN task.pending ELSE {}) :
          cleanup_local_file(n, TRUE, "none")
    \/ Calm /\ manual_cleanup
    \/ \E n \in (IF manual.pc = "scan" THEN manual.pending ELSE {}) :
          manual_cleanup_file(n, TRUE, "none")

SpecFrame == InitLedger /\ [][NextFrame]_vars

\* uploads of one file without a session and the requests for the storage
\* information, with every retention time
NextInfo ==
    \/ Upload({"u1"}, {NoSession}, {<<"cube", ".stl">>}, {"X"})
    \/ storage_info

SpecInfo == InitSweep /\ [][NextInfo]_vars

\* uploads of one file without a session, the clock, and scheduled and manual
\* sweeps in which reads and deletions can fail, one at a time
NextTwice ==
    \/ Calm /\ Tick
    \/ (Calm \/ ~Quiet) /\ Upload({"u1"}, {NoSession}, {<<"cube", ".stl">>}, {"X"})
    \/ (Calm \/ task.pc = "scan") /\ Cleanup
    \/ (Calm \/ manual.pc = "scan") /\ ManualCleanup

SpecTwice == InitLedger /\ [][NextTwice]_vars

\* the configuration is read by StorageService() and by no request; in
\* s3 mode every subset of the environment is tried, in local mode the
\* empty and the complete one
InitConfig ==
    /\ Init
    /\ auto_delete_hours = 0
    /\ is_local_storage => environment \in {{}, Environment}

\* under every configuration, the operations that reach the backend: the
\* saves of the uploads, the calls of delete_file and the sweeps
NextConfig ==
    \/ Upload({"u1"}, {NoSession}, {<<"cube", ".stl">>}, {"X"})
    \/ \E n \in Names({<<"cube", ".stl">>}), failed \in {"none", "s3"} :
          delete_file(n, failed)
    \/ Cleanup

SpecConfig == InitConfig /\ [][NextConfig]_vars

-----------------------------------------------------------------------------
(* Properties of the session ledger and of the upload *)

\* a step in which save_file_with_duplicate_check (or save_file, without a
\* session) receives the bytes c under the file name f for the session s;
\* such a step draws a stored name or answers 409
uploads(s, f, c) ==
    /\ Suffix(f) \in allowed_extensions
    /\ uuids' = uuids + 1 \/ reply'.status = 409
    /\ \E p \in Procs, put_ok \in BOOLEAN, parsed \in BOOLEAN :
          upload_file(p, s, f, c, put_ok, parsed)

\* the stored names that hold the bytes c
Copies(c) ==
    IF is_local_storage
    THEN {n \in DOMAIN files : files[n] = c}
    ELSE {k \in DOMAIN s3_objects : s3_objects[k].body = c}

\* the hash h is in the set of the session s
InHashSet(s, h) ==
    s \in DOMAIN session_file_hashes /\ h \in session_file_hashes[s]

\* the file name f is bound to the hash h in the session s
Bound(s, f, h) ==
    /\ s \in DOMAIN session_filename_hashes
    /\ f \in DOMAIN session_filename_hashes[s]
    /\ session_filename_hashes[s][f] = h

\* the file name f is bound to a hash other than h in the session s
BoundToOther(s, f, h) == \E g \in Hashes \ {h} : Bound(s, f, g)

\* C1: when requests complete one at a time, an upload into a session S of
\* bytes that were accepted in S before (under the same or another file
\* name, with no clear and no removal since) is rejected as HashDuplicate and
\* changes neither the store nor count(S); the upload that was accepted
\* raised count(S) by exactly one and stored the bytes under exactly one new
\* name. Together the two uploads create one object and raise count(S) by one.
C1_SecondUploadIsHashDuplicate ==
    [][/\ (uuids' = uuids + 1 \/ reply'.status = 409) =>
          \A s \in Sessions, c \in Contents :
             (\E g \in Filenames : <<c, g>> \in accepted[s]) =>
                \A f \in Filenames :
                   uploads(s, f, c)
                   => /\ reply' = Conflict("HashDuplicate")
                      /\ UNCHANGED <<store, uuids>>
                      /\ get_session_file_count(s)' = get_session_file_count(s)
       /\ accepted' # accepted =>
          \A s \in Sessions, f \in Filenames, c \in Contents :
             (<<c, f>> \in accepted'[s] \ accepted[s])
             => /\ get_session_file_count(s)' = get_session_file_count(s) + 1
                /\ IF is_local_storage
                   THEN /\ procs["u1"].pc = "saved"
                        /\ procs["u1"].stored_filename \in Copies(c)'
                        /\ procs["u1"].stored_filename.id = uuids
                        /\ UNCHANGED <<store, uuids>>
                   ELSE /\ uuids' = uuids + 1
                        /\ Copies(c)' = Copies(c) \cup
                              {generate_unique_filename(f)}
                        /\ generate_unique_filename(f) \notin DOMAIN s3_objects
      ]_vars

\* the second upload of the bytes X into s1, under another name, has been
\* rejected: one name was drawn, one object is stored, count(s1) is 1
C1_Witness ==
    /\ reply = Conflict("HashDuplicate")
    /\ rejected = <<"s1", <<"part", ".obj">>, "X">>
    /\ accepted["s1"] = {<<"X", <<"cube", ".stl">>>>}
    /\ get_session_file_count("s1") = 1
    /\ uuids = 1
    /\ Cardinality(Copies("X")) = 1

\* C2: two uploads of the same content in the same session are never both
\* between their duplicate check and their registration
C2_CheckThenRegisterExclusive ==
    \A p, q \in Procs :
        (/\ p # q
         /\ procs[p].pc # "idle"
         /\ procs[q].pc # "idle"
         /\ procs[p].session_id # NoSession
         /\ procs[p].session_id = procs[q].session_id)
        => procs[p].content # procs[q].content

\* C3: an upload of bytes with hash h' under a file name that the session
\* binds to another hash, h' not being in the session's set, is rejected as
\* NameConflict, and neither the store nor the ledger changes
C3_NameConflictRejected ==
    [][\A s \in Sessions, f \in Filenames, c \in Contents :
          (/\ uploads(s, f, c)
           /\ BoundToOther(s, f, calculate_file_hash(c))
           /\ ~InHashSet(s, calculate_file_hash(c)))
          => /\ reply' = Conflict("NameConflict")
             /\ UNCHANGED <<store, uuids, ledger>>
      ]_vars

\* an upload was rejected as NameConflict; its name is bound to another hash
C3_Witness ==
    /\ reply = Conflict("NameConflict")
    /\ \E s \in Sessions, f \in Filenames, c \in Contents :
          /\ rejected = <<s, f, c>>
          /\ BoundToOther(s, f, calculate_file_hash(c))
          /\ get_session_file_count(s) >= 1

\* C4: an upload whose hash is in the session's set is answered HashDuplicate,
\* also when its file name is bound to another hash; NameConflict is
\* answered only when the hash is not in the set and the name is bound to
\* another hash; the upload goes on to save_file (the result None) exactly
\* when neither holds
C4_HashDuplicateFirst ==
    [][\A s \in Sessions, f \in Filenames, c \in Contents :
          uploads(s, f, c) =>
             LET h == calculate_file_hash(c)
             IN /\ InHashSet(s, h) => reply' = Conflict("HashDuplicate")
                /\ (rejected' = <<s, f, c>> /\ reply' = Conflict("NameConflict"))
                      => ~InHashSet(s, h) /\ BoundToOther(s, f, h)
                /\ (~InHashSet(s, h) /\ ~BoundToOther(s, f, h))
                      <=> (uuids' = uuids + 1 /\ rejected' # <<s, f, c>>)
      ]_vars

\* an upload was answered HashDuplicate while its name is bound to another hash
C4_Witness ==
    /\ reply = Conflict("HashDuplicate")
    /\ \E s \in Sessions, f \in Filenames, c \in Contents :
          /\ rejected = <<s, f, c>>
          /\ InHashSet(s, calculate_file_hash(c))
          /\ BoundToOther(s, f, calculate_file_hash(c))

\* C5: a step that answers an upload with a 409 (HashDuplicate or
\* NameConflict) changes nothing in the store and in the ledger, draws no
\* stored name and leaves the uploads in flight as they are
C5_RejectedUploadChangesNothing ==
    [][(rejected' # NoRequest /\ response' # response)
          => UNCHANGED <<store, ledger, uuids, procs>>
      ]_vars

\* an upload was rejected while another upload is writing its blob
C5_Witness ==
    /\ rejected # NoRequest
    /\ reply.status = 409
    /\ \E p \in Procs : procs[p].pc = "blob_write"
    /\ \E n \in DOMAIN files : files[n] = Partial

\* the upload that a step registers in the session s with hash h has written
\* its object before the step
WrittenBefore(s, h) ==
    IF is_local_storage
    THEN \E p \in Procs :
            /\ procs[p].pc = "saved"
            /\ procs'[p] = Idle
            /\ procs[p].session_id = s
            /\ calculate_file_hash(procs[p].content) = h
            /\ procs[p].stored_filename \in DOMAIN files
            /\ files[procs[p].stored_filename] = procs[p].content
            /\ procs[p].stored_filename \in DOMAIN metafiles
            /\ metafiles[procs[p].stored_filename] # NoMetadata
    ELSE \E k \in DOMAIN s3_objects' \ DOMAIN s3_objects :
            calculate_file_hash(s3_objects'[k].body) = h

\* C6: an upload starts its store write only after its duplicate check
\* returned None; a hash or a binding enters the ledger only in a step of an
\* upload whose store write has completed (blob and metadata written); a step
\* that answers with a failed store write leaves the ledger unchanged
C6_RegisterAfterStoreWrite ==
    [][/\ \A s \in Sessions, f \in Filenames, c \in Contents :
             (uuids' # uuids /\ uploads(s, f, c))
             => duplicate_check(s, calculate_file_hash(c), f) = "None"
       /\ \A s \in Sessions, h \in Hashes :
             (InHashSet(s, h)' /\ ~InHashSet(s, h)) => WrittenBefore(s, h)
       /\ \A s \in Sessions, f \in Filenames, h \in Hashes :
             (Bound(s, f, h)' /\ ~Bound(s, f, h)) => WrittenBefore(s, h)
       /\ reply' = Failed("store") => UNCHANGED ledger
      ]_vars

\* an upload was registered after its blob and sidecar were written, and
\* another upload into the session has failed in its store write since
C6_Witness ==
    /\ reply = Failed("store")
    /\ get_session_file_count("s1") = 1
    /\ accepted["s1"] # {}
    /\ uuids = 2

\* C9: in a session that was cleared and in which nothing has been registered
\* since, the exact repeat of an upload registered at the time of the clear
\* is not rejected: it goes on to the store write, and in s3 mode it is
\* registered when the write succeeds
C9_RepeatAfterClearAccepted ==
    [][\A s \in Sessions, f \in Filenames, c \in Contents :
          (uploads(s, f, c) /\ <<c, f>> \in cleared[s])
          => /\ rejected' = NoRequest \/ response' = response
             /\ uuids' = uuids + 1
             /\ IF is_local_storage
                THEN \E p \in Procs :
                        /\ procs'[p].pc = "blob_open"
                        /\ procs'[p].session_id = s
                        /\ procs'[p].content = c
                        /\ procs'[p].filename = f
                ELSE reply' = Failed("store")
                     \/ InHashSet(s, calculate_file_hash(c))'
      ]_vars

\* the repeat of an upload that was registered when the session was cleared
\* has passed the duplicate check and written its object
C9_Witness ==
    \E p \in Procs :
        /\ procs[p].pc = "saved"
        /\ <<procs[p].content, procs[p].filename>> \in cleared[procs[p].session_id]

\* C10: removing the file name f from the session s answers 404 and leaves
\* the ledger unchanged when f is not bound in s (also when s is unknown);
\* otherwise it answers 200, takes the hash bound to f out of the set of s
\* and the binding of f out of the mapping of s, and leaves every other hash
\* and binding of s and every other session in place
C10_Unregister ==
    [][\A s \in Sessions, f \in Filenames :
          remove_file_from_cart(s, f) =>
             IF \A h \in Hashes : ~Bound(s, f, h)
             THEN reply'.status = 404 /\ UNCHANGED ledger
             ELSE /\ reply'.status = 200
                  /\ \A h \in Hashes :
                        InHashSet(s, h)' <=> (InHashSet(s, h) /\ ~Bound(s, f, h))
                  /\ \A g \in Filenames, h \in Hashes :
                        Bound(s, g, h)' <=> (Bound(s, g, h) /\ g # f)
                  /\ \A r \in Sessions \ {s}, g \in Filenames, h \in Hashes :
                        /\ InHashSet(r, h)' <=> InHashSet(r, h)
                        /\ Bound(r, g, h)' <=> Bound(r, g, h)
      ]_vars

\* a file name was removed from a session that still holds another file
C10_Witness ==
    /\ reply = [op |-> "remove", status |-> 200, detail |-> ""]
    /\ get_session_file_count("s1") = 1
    /\ \E f \in Filenames, h \in Hashes :
          /\ Bound("s1", f, h)
          /\ session_file_hashes["s1"] = {h}
          /\ DOMAIN session_filename_hashes["s1"] = {f}

-----------------------------------------------------------------------------
(* Properties of the sweep *)

\* every stored name in use
StoredNames == DOMAIN files \cup DOMAIN metafiles \cup DOMAIN s3_objects

\* the step removes the blob, the sidecar or the object of the stored name n
Removed(n) ==
    \/ n \in DOMAIN files /\ n \notin DOMAIN files'
    \/ n \in DOMAIN metafiles /\ n \notin DOMAIN metafiles'
    \/ n \in DOMAIN s3_objects /\ n \notin DOMAIN s3_objects'

\* nothing is stored under the name n
Gone(n) == n \notin StoredNames

\* the metadata of the stored name n is committed: the sidecar holds its JSON
\* (local), the object carries its upload_time (s3)
Committed(n) ==
    IF is_local_storage
    THEN n \in DOMAIN metafiles /\ has_upload_time(metafiles[n])
    ELSE n \in DOMAIN s3_objects /\ has_upload_time(s3_objects[n].metadata)

\* the upload time in the committed metadata of n
UploadTime(n) ==
    IF is_local_storage THEN metafiles[n][1] ELSE s3_objects[n].metadata[1]

\* the cutoff of the sweep that is running: computed when the sweep started
\* (local), computed in the step of the sweep itself (s3)
SweepCutoff == IF is_local_storage THEN task.cutoff_time ELSE cutoff

\* a step in which a sweep examines the stored name n and no call fails
examines(n) ==
    IF is_local_storage
    THEN cleanup_local_file(n, TRUE, "none")
    ELSE n \in DOMAIN s3_objects /\ cleanup_task_run /\ cleanup_s3_files(NoKey, {})

Examined(n) ==
    /\ task' # task
    /\ n \in DOMAIN swept'
    /\ is_local_storage => n \notin DOMAIN swept

\* the step leaves what is stored under the name n as it is
Kept(n) ==
    /\ n \in DOMAIN files => (n \in DOMAIN files' /\ files'[n] = files[n])
    /\ n \in DOMAIN metafiles =>
          (n \in DOMAIN metafiles' /\ metafiles'[n] = metafiles[n])
    /\ n \in DOMAIN s3_objects =>
          (n \in DOMAIN s3_objects' /\ s3_objects'[n] = s3_objects[n])

\* C8: a step removes a blob, a sidecar or an object only when the metadata
\* of that stored name is committed; a sidecar is created, and is committed,
\* only when the blob of its name is completely written; and a sweep that
\* finds no upload time for a name (sidecar partially written, object without
\* the upload_time entry) leaves it in the store
C8_UncommittedNeverSwept ==
    [][\A n \in StoredNames \cup DOMAIN metafiles' :
          /\ Removed(n) => Committed(n)
          /\ (n \in DOMAIN metafiles' /\ ~(n \in DOMAIN metafiles /\ Committed(n)))
                => (n \in DOMAIN files /\ files[n] # Partial)
          /\ (Examined(n) /\ swept'[n] = "skipped")
                => ~Committed(n) /\ Kept(n)
          /\ (Examined(n) /\ ~Committed(n)) => Kept(n)
      ]_vars

\* a sweep has examined the stored name of an upload that has written its
\* blob and is writing its sidecar, and has left the blob in the store
C8_Witness ==
    \E p \in Procs :
        /\ procs[p].pc = "meta_write"
        /\ procs[p].stored_filename \in DOMAIN swept
        /\ swept[procs[p].stored_filename] = "skipped"
        /\ procs[p].stored_filename \in DOMAIN files
        /\ files[procs[p].stored_filename] = procs[p].content
        /\ metafiles[procs[p].stored_filename] = NoMetadata

-----------------------------------------------------------------------------
(* Properties of the content store *)

\* C11: in local mode every blob has its sidecar and every sidecar has its
\* blob; stated here for the states in which no save and no sweep is in
\* progress, so after every save and every delete that has ended, failed or not
C11_BlobAndSidecarTogether ==
    (is_local_storage /\ Quiet /\ task.pc = "sleep")
    => DOMAIN files = DOMAIN metafiles

\* the names that the requests of SpecStore carry
StoreNames == Names({<<"cube", ".stl">>})

\* C12: in local mode a download of the stored name that a successful save
\* returned answers the bytes that were saved while the blob of that name is
\* still stored, a blob once written keeps its bytes until it is removed, and
\* a download of a name under which no blob is stored answers NotFound
C12_GetReturnsSavedBytes ==
    [][is_local_storage =>
          /\ \A n \in DOMAIN files \cap DOMAIN files' :
                files[n] # Partial => files'[n] = files[n]
          /\ \A n \in StoreNames :
                download_file(n) =>
                   /\ \A p \in Procs :
                         (/\ procs[p].pc = "saved"
                          /\ procs[p].stored_filename = n
                          /\ n \in DOMAIN files)
                         => reply' = Downloaded(procs[p].content)
                   /\ n \notin DOMAIN files => reply' = NotFound
      ]_vars


\* the stored names of the uploads that are running
InFlight == {procs[p].stored_filename : p \in {q \in Procs : procs[q].pc # "idle"}}

\* C13: a save stores under a name made of a freshly drawn value and the
\* suffix of the original file name, whatever that file name is: the name is
\* not in use in the store and no upload that is running holds it, so two
\* saves, also two of the same file name, get distinct stored names; a blob,
\* a sidecar or an object is created only under the name of the save that
\* writes it, and what is stored under any other name stays as it is
C13_FreshStoredName ==
    [][/\ uuids' # uuids =>
          \A s \in Sessions, f \in Filenames, c \in Contents :
             uploads(s, f, c) =>
                LET n == generate_unique_filename(f)
                IN /\ n.ext = Suffix(f)
                   /\ n \notin StoredNames
                   /\ n \notin InFlight
                   /\ \A k \in StoredNames : Kept(k)
                   /\ IF is_local_storage
                      THEN \E p \in Procs :
                              /\ procs[p].pc = "idle"
                              /\ procs'[p].stored_filename = n
                      ELSE DOMAIN s3_objects' \subseteq DOMAIN s3_objects \cup {n}
       /\ store' # store =>
          \A n \in StoredNames \cup StoredNames' :
             \/ Kept(n) /\ n \in StoredNames
             \/ \E p \in Procs :
                   /\ procs[p].pc \in {"blob_open", "blob_write", "meta_open", "meta_write"}
                   /\ procs[p].stored_filename = n
                   /\ \A q \in Procs \ {p} :
                         procs[q].pc # "idle" => procs[q].stored_filename # n
             \/ is_s3_storage /\ n \notin StoredNames /\ n = [id |-> uuids', ext |-> n.ext]
      ]_vars

\* two uploads of the same file name have been saved under two stored names
\* that keep its suffix
C13_Witness ==
    /\ procs["u1"].pc = "saved"
    /\ procs["u2"].pc = "saved"
    /\ procs["u1"].filename = procs["u2"].filename
    /\ procs["u1"].stored_filename # procs["u2"].stored_filename
    /\ procs["u1"].stored_filename.ext = Suffix(procs["u1"].filename)
    /\ procs["u2"].stored_filename.ext = Suffix(procs["u2"].filename)
    /\ {procs["u1"].stored_filename, procs["u2"].stored_filename} \subseteq DOMAIN files

\* a step in which delete_file is called with the name n in local mode
deletes(n) ==
    /\ is_local_storage
    /\ reply'.op = "delete_file"
    /\ \E failed \in {"none", "blob", "meta"} : delete_file(n, failed)

-----------------------------------------------------------------------------
(* Properties of the configuration *)

\* a save, a delete or a sweep has been run
Executed ==
    \/ uuids # 0
    \/ reply # NoReply
    \/ StoredNames # {}
    \/ \E p \in Procs : procs[p].pc # "idle"
    \/ task # [pc |-> "sleep", wake_at |-> 0]

\* C16: validate_s3_config is false exactly in s3 mode with the bucket name,
\* the access key id or the secret access key absent (it is true in local
\* mode whatever is set); StorageService() raises whenever it is false, so
\* with an incomplete configuration of the S3 backend no save, no delete and
\* no sweep is ever run
C16_IncompleteConfigNeverRuns ==
    /\ validate_s3_config <=> (is_local_storage \/ Settings \subseteq environment)
    /\ ~validate_s3_config => service # "constructed"
    /\ is_local_storage => service = "constructed"
    /\ (is_s3_storage /\ ~(Settings \subseteq environment))
          => (service = "ValueError" \/ service = "ImportError") /\ ~Executed
    /\ Executed => started

\* in s3 mode without the secret access key StorageService() has raised
C16_Witness ==
    /\ is_s3_storage
    /\ environment = Environment \ {"AWS_SECRET_ACCESS_KEY"}
    /\ ~validate_s3_config
    /\ service = "ValueError"
    /\ ~Executed

-----------------------------------------------------------------------------
(* Properties of the cleanup loop *)

\* the sweep that is running, or else the last one, had a failing call
SweepFailed == \E n \in DOMAIN swept : swept[n] = "error"

\* C17: a step of a sweep in which a call fails leaves the cleanup task in
\* its loop: it goes on with the sweep or sleeps for the fixed interval from
\* that moment; a sweep that starts lists what the store holds at that
\* moment; and, the event loop being fair to the task and the clock going
\* on, after a failed sweep the task starts another sweep once the interval
\* is over (so it sleeps beyond the last hour of the clock only after
\* starting one), unless the shutdown has cancelled it
C17_LoopSurvivesFailure ==
    /\ [][/\ (swept' # swept /\ SweepFailed') =>
                /\ task'.pc \in {"scan", "sleep"}
                /\ task'.pc = "sleep" => task'.wake_at = now + SleepHours
          /\ (task.pc = "sleep" /\ task'.pc = "scan") =>
                /\ task'.pending = DOMAIN metafiles
                /\ task'.cutoff_time = cutoff
          /\ task'.pc = "done" => stop
         ]_vars
    /\ (SweepFailed /\ ~stop /\ task.pc = "sleep" /\ task.wake_at <= MaxTime)
       ~> (stop \/ task.pc = "scan" \/ (task.pc = "sleep" /\ task.wake_at > MaxTime))

\* a sweep has started and has the sidecar of a name without blob to examine:
\* the delete of an earlier sweep failed on that name
C17_Witness ==
    /\ is_local_storage
    /\ ~stop
    /\ task.pc = "scan"
    /\ swept = Empty
    /\ \E n \in task.pending : n \in DOMAIN metafiles /\ n \notin DOMAIN files

\* C18: when the cleanup task has ended after the stop signal, no stored
\* name is half-deleted: there is no sidecar whose blob was removed (the blob
\* is unlinked first, so a blob whose sidecar was removed cannot occur)
C18_NoHalfDeletedAtExit ==
    (is_local_storage /\ task.pc = "done")
    => \A n \in DOMAIN metafiles : n \in DOMAIN files


-----------------------------------------------------------------------------
(* Properties of the frame of the session ledger *)

\* what the ledger holds of the session r
SessionState(r) ==
    [seen |-> r \in DOMAIN session_file_hashes,
     hashes |-> IF r \in DOMAIN session_file_hashes
                THEN session_file_hashes[r] ELSE {},
     named |-> r \in DOMAIN session_filename_hashes,
     names |-> IF r \in DOMAIN session_filename_hashes
               THEN session_filename_hashes[r] ELSE Empty]

\* this step ends an upload into the session r that passed the duplicate
\* check and whose store write succeeded
AcceptedInto(r) ==
    IF is_local_storage
    THEN \E p \in Procs : /\ procs[p].pc = "saved"
                          /\ procs[p].session_id = r
                          /\ procs[p].stored_filename \in DOMAIN files
                          /\ procs'[p] = Idle
    ELSE /\ uuids' = uuids + 1
         /\ DOMAIN s3_objects' # DOMAIN s3_objects
         /\ reply'.op = "upload" /\ reply'.status # 409
         /\ SessionState(r)'.hashes # {}

\* C20: A session's ledger state is changed only by an accepted upload into
\* that session, by unregister and by clear: a step that changes the ledger
\* changes one session, that session is one a request named, and the step
\* is the clear of that session, a successful removal from it or the end of
\* an upload into it that passed the duplicate check and was stored; so
\* the duplicate check, the count, rejected uploads, uploads without a
\* session id, get, delete and every step of a scheduled or manual sweep
\* leave all hash sets and filename mappings unchanged.  The duplicate
\* check on an unseen session id answers None, and the step that makes it
\* does not create the session.
C20_LedgerFrame ==
    [][/\ ledger' # ledger =>
            /\ DOMAIN session_file_hashes' \subseteq Sessions
            /\ DOMAIN session_filename_hashes' \subseteq Sessions
            /\ UNCHANGED <<now, task, manual, swept>>
            /\ \E r \in Sessions :
                  /\ \A q \in Sessions \ {r} : SessionState(q)' = SessionState(q)
                  /\ \/ /\ reply'.op = "clear"
                        /\ ~SessionState(r)'.seen /\ ~SessionState(r)'.named
                        /\ UNCHANGED <<store, procs>>
                     \/ /\ reply'.op = "remove" /\ reply'.status = 200
                        /\ UNCHANGED <<store, procs>>
                     \/ AcceptedInto(r)
       /\ reply'.op \in {"info", "download", "delete_file", "cleanup"} =>
            UNCHANGED ledger
       /\ reply'.op = "upload" /\ reply'.status \in {400, 409} =>
            UNCHANGED ledger
       /\ rejected' # NoRequest /\ rejected' # rejected =>
            /\ rejected'[1] \in DOMAIN session_file_hashes
            /\ UNCHANGED ledger
       /\ \A r \in Sessions \ DOMAIN session_file_hashes :
            /\ duplicate_check(r, calculate_file_hash("X"), <<"cube", ".stl">>) = "None"
            /\ procs["u1"].pc = "idle" /\ procs'["u1"].pc # "idle"
               /\ procs'["u1"].session_id = r
               => r \notin DOMAIN session_file_hashes'
      ]_vars

\* a sweep has deleted every stored object while a session still holds the
\* hash of the upload registered in it, and another session was never seen
C20_Witness ==
    /\ reply.op = "cleanup" /\ reply.status = 200
    /\ uuids > 0
    /\ DOMAIN files \cup DOMAIN metafiles \cup DOMAIN s3_objects = {}
    /\ \E r \in Sessions : SessionState(r).hashes # {}
    /\ \E r \in Sessions : ~SessionState(r).seen

-----------------------------------------------------------------------------
(* Properties of the session endpoints and the content store *)

\* this step is answered by clear_session or by remove_file_from_cart
SessionEndpointStep ==
    /\ reply'.op \in {"clear", "remove"}
    /\ reply' # reply \/ ledger' # ledger

C22_ClearIdempotentAndTotal ==
    [][/\ reply'.op = "clear" => reply'.status = 200
       /\ \A r \in Sessions :
            /\ reply' = SessionCleared(r)
            /\ reply' # reply \/ ledger' # ledger \/ cleared' # cleared
            => /\ get_session_file_count(r)' = 0
               /\ ~SessionState(r)'.seen /\ ~SessionState(r)'.named
               /\ \A q \in Sessions \ {r} : SessionState(q)' = SessionState(q)
               /\ ~SessionState(r).seen /\ ~SessionState(r).named => UNCHANGED ledger
               /\ reply = SessionCleared(r) => UNCHANGED ledger
      ]_vars

\* a session that was never seen has been cleared while the other one holds
\* an upload
C22_Witness ==
    \E r \in Sessions :
       /\ reply = SessionCleared(r)
       /\ accepted[r] = {} /\ cleared[r] = {}
       /\ \E q \in Sessions \ {r} : get_session_file_count(q) > 0

-----------------------------------------------------------------------------
(* Properties of the sweeps *)

\* C23: sweepExpired, and the manual triggerCleanup, return the number of
\* objects that this pass deleted: the response that ends a manual cleanup
\* carries a count, and in s3 mode, where the pass is one step, that count is
\* the number of objects the step removed from the bucket.
C23_CleanupReturnsDeletedCount ==
    [][reply'.op = "cleanup" /\ reply'.status = 200
          /\ (reply' # reply \/ store' # store \/ manual' # manual)
       => /\ reply'.detail \in {ToString(k) : k \in 0..MaxObjects}
          /\ is_s3_storage =>
                reply'.detail =
                   ToString(Cardinality(DOMAIN s3_objects \ DOMAIN s3_objects'))
      ]_vars

-----------------------------------------------------------------------------
(* Properties of the storage information *)

\* C24: storageInfo() succeeds in both storage modes and returns the mode,
\* the TTL in hours, and the local root directory (local mode) or the bucket
\* name (remote mode).
C24_StorageInfoSucceeds ==
    reply.op = "storage_info" =>
       /\ reply.status = 200
       /\ reply.detail \in {StorageInfo("local_upload_dir").detail,
                            StorageInfo("s3_bucket").detail}

-----------------------------------------------------------------------------
(* Properties of the content hash *)

\* C25: The content hash of an upload is a function of the bytes only: the
\* hash that save_file computes and registers for an accepted upload is the
\* digest of its bytes whatever the file name and the session, no session
\* holds the digest of a stream that was read from anywhere but its start, an
\* upload rejected as a duplicate has the hash that the earlier upload of the
\* same bytes registered, and after the hashing the full content is what
\* gets stored.
C25_HashOfBytesOnly ==
    /\ \A s \in Sessions : \A cf \in accepted[s] :
          s \in DOMAIN session_filename_hashes
             /\ cf[2] \in DOMAIN session_filename_hashes[s]
          => session_filename_hashes[s][cf[2]] = sha256[cf[1]]
    /\ \A s \in DOMAIN session_file_hashes :
          session_file_hashes[s] \subseteq {sha256[c] : c \in Contents}
    /\ rejected # NoRequest /\ reply = Conflict("HashDuplicate") =>
          sha256[rejected[3]] \in session_file_hashes[rejected[1]]
    /\ \A p \in Procs : procs[p].pc \in {"meta_open", "meta_write", "saved"} =>
          files[procs[p].stored_filename] = procs[p].content
    /\ \A n \in DOMAIN s3_objects : s3_objects[n].body \in Contents

\* the same bytes were accepted under two file names in two sessions, and a
\* third upload of them has been rejected as a duplicate
C25_Witness ==
    /\ reply = Conflict("HashDuplicate")
    /\ rejected # NoRequest
    /\ \E c \in Contents, f, g \in Filenames :
          /\ f # g
          /\ rejected[3] = c
          /\ <<c, f>> \in accepted["s1"]
          /\ <<c, g>> \in accepted["s2"]
          /\ session_filename_hashes["s1"][f] = session_filename_hashes["s2"][g]

-----------------------------------------------------------------------------
(* Properties of uploads without a session id *)

\* an upload without a session id passes upload_file and starts its writes
SessionlessStart ==
    /\ procs["u1"].pc = "idle" /\ procs'["u1"].pc = "blob_open"
    /\ procs'["u1"].session_id = NoSession

\* an upload without a session id returns from save_file
SessionlessEnd ==
    /\ procs["u1"].pc = "saved" /\ procs'["u1"] = Idle
    /\ procs["u1"].session_id = NoSession

\* C26: An upload given no session id performs no duplicate check and no
\* registration: it is never rejected with a 409 and no ledger entry is made
\* for it, whatever was uploaded before it stores a new object under a name
\* that is not in the store, and the ledger of every session is left as it
\* was.
C26_SessionlessUploadAlwaysStores ==
    [][/\ rejected' # NoRequest => rejected'[1] # NoSession
       /\ DOMAIN session_file_hashes' \subseteq Sessions
       /\ DOMAIN session_filename_hashes' \subseteq Sessions
       /\ SessionlessStart =>
             /\ UNCHANGED ledger
             /\ uuids' = uuids + 1
             /\ procs'["u1"].stored_filename \notin StoredNames
       /\ SessionlessEnd =>
             /\ UNCHANGED ledger
             /\ reply'.status # 409
             /\ Committed(procs["u1"].stored_filename)
             /\ files[procs["u1"].stored_filename] = procs["u1"].content
       /\ is_s3_storage /\ reply'.op = "upload" /\ uuids' = uuids + 1
             /\ reply'.detail # "store"
          => \E n \in DOMAIN s3_objects' \ DOMAIN s3_objects :
                s3_objects'[n].body \in Contents
      ]_vars

\* the same bytes were uploaded twice without a session id: two objects are
\* stored under two names, and no session was created
C26_Witness ==
    /\ reply.op = "upload" /\ reply.status = 200
    /\ session_file_hashes = Empty /\ session_filename_hashes = Empty
    /\ \E n, m \in StoredNames :
          /\ n # m
          /\ Committed(n) /\ Committed(m)
          /\ IF is_local_storage
             THEN n \in DOMAIN files /\ m \in DOMAIN files /\ files[n] = files[m]
             ELSE s3_objects[n].body = s3_objects[m].body

-----------------------------------------------------------------------------
(* Properties of repeated sweeps *)

\* the scheduled sweep has completed within the current hour
JustSwept == task.pc = "sleep" /\ task.wake_at = now + SleepHours

\* no read and no deletion of the last scheduled sweep failed
SweptCleanly == \A n \in DOMAIN swept : swept[n] # "error"

\* this step is a step of a manual sweep
ManualSweepStep ==
    \/ manual' # manual
    \/ reply'.op = "cleanup" /\ UNCHANGED <<procs, task, now, uuids>>

-----------------------------------------------------------------------------
(* Properties of the ledger under atomic requests *)

\* C28: When uploads with duplicate check, unregister and clear are each
\* executed atomically, every reachable session state has a filename mapping
\* that is injective and whose set of values equals the session's hash set,
\* so count(S) equals the number of filenames registered in S.
C28_MappingInjectiveOntoHashSet ==
    /\ DOMAIN session_file_hashes = DOMAIN session_filename_hashes
    /\ \A s \in DOMAIN session_filename_hashes :
          LET names == session_filename_hashes[s]
          IN /\ \A f, g \in DOMAIN names : names[f] = names[g] => f = g
             /\ {names[f] : f \in DOMAIN names} = session_file_hashes[s]
             /\ get_session_file_count(s) = Cardinality(DOMAIN names)

\* a session holds two file names bound to two hashes after an upload of
\* bytes it already held was rejected
C28_Witness ==
    /\ reply.status = 409
    /\ \E s \in DOMAIN session_filename_hashes :
          /\ Cardinality(DOMAIN session_filename_hashes[s]) = 2
          /\ get_session_file_count(s) = 2

-----------------------------------------------------------------------------
(* Properties of the ledger under interleaved uploads *)

\* C29: After any interleaving of uploads, once the removal of the file name
\* f from the session s has returned true, an upload to s of the bytes that
\* were registered under f is not a HashDuplicate and an upload of bytes not
\* in the session under the name f is not a NameConflict; and no hash stays
\* in the hash set of s without a file name through which it can be removed.
C29_UnregisterReleasesNameAndHash ==
    [][/\ \A s \in Sessions, f \in Filenames, h \in Hashes :
             /\ Bound(s, f, h)
             /\ reply'.op = "remove" /\ reply'.status = 200
             /\ ~Bound(s, f, h)'
             => /\ ~InHashSet(s, h)'
                /\ \A g \in Hashes : ~InHashSet(s, g)' => ~BoundToOther(s, f, g)'
       /\ \A s \in Sessions, h \in Hashes :
             InHashSet(s, h)' => \E f \in Filenames : Bound(s, f, h)'
      ]_vars


\* C30: Whenever an upload to the session s is rejected as HashDuplicate, a
\* stored object holding that content still exists in the store; equivalently,
\* every hash in the hash set of a session refers to an object that has not
\* been swept or deleted.
C30_HashSetRefersToStoredObject ==
    [][/\ \A s \in Sessions, f \in Filenames, c \in Contents :
             uploads(s, f, c) /\ reply' = Conflict("HashDuplicate")
             => Copies(c)' # {}
       /\ \A s \in Sessions, c \in Contents :
             InHashSet(s, calculate_file_hash(c))' => Copies(c)' # {}
      ]_vars

-----------------------------------------------------------------------------
(* Properties of failed requests, of separate sessions and of failing sweeps *)

\* the step ends the upload request of the bytes c under the file name f for
\* the session s with a 500 response
UploadFails(s, f, c) ==
    /\ reply'.op = "upload" /\ reply'.status = 500
    /\ \E p \in Procs :
          /\ procs'[p].pc = "idle"
          /\ \/ /\ procs[p].pc = "idle"
                /\ \E put_ok \in BOOLEAN, parsed \in BOOLEAN :
                      upload_file(p, s, f, c, put_ok, parsed)
             \/ /\ procs[p].pc # "idle"
                /\ procs[p].session_id = s
                /\ procs[p].filename = f
                /\ procs[p].content = c
                /\ \E ok \in BOOLEAN, parsed \in BOOLEAN :
                      \/ save_local_blob_open(p, ok)
                      \/ save_local_blob_write(p, ok)
                      \/ save_local_meta_open(p, ok)
                      \/ save_local_meta_write(p, ok)
                      \/ save_file_return(p, parsed)

\* C31: An upload request that ends in a failure other than a conflict (for
\* instance an error in the processing that follows the store write) leaves
\* the session ledger as it was before the request, so an identical retry of
\* the same file in the same session is not rejected as HashDuplicate.
C31_FailedUploadLeavesLedger ==
    [][\A s \in Sessions, f \in Filenames, c \in Contents :
          UploadFails(s, f, c)
          => /\ ledger' = ledger
             /\ duplicate_check(s, calculate_file_hash(c), f)' # "HashDuplicate"
      ]_vars


\* the step belongs to a request on the session a: an upload into a (its
\* start or one of its later steps), the clear of a or a removal from a
OnSession(a) ==
    \/ \E p \in Procs, f \in Filenames, c \in Contents,
          put_ok \in BOOLEAN, parsed \in BOOLEAN :
          upload_file(p, a, f, c, put_ok, parsed)
    \/ \E p \in Procs : /\ procs[p].pc # "idle"
                        /\ procs[p].session_id = a
                        /\ procs'[p] # procs[p]
    \/ clear_session_endpoint(a)
    \/ \E f \in Filenames : remove_file_from_cart(a, f)

\* C32: Sessions are isolated: a step of an upload into the session a, of a
\* removal from a or of the clear of a leaves the hash set and the filename
\* mapping of every other session b unchanged (no step that changes them for
\* b belongs to a request on another session); an upload into b of bytes or
\* under a file name registered in another session a, which b itself does not
\* hold, passes the duplicate check and draws a new stored name; and when it
\* is registered in b while a holds the same hash, the store holds at least
\* two objects with those bytes.
C32_SessionsIsolated ==
    [][/\ ledger' # ledger =>
             \A b \in Sessions : SessionState(b)' # SessionState(b) =>
                \A a \in Sessions \ {b} : ~OnSession(a)
       /\ \A b \in Sessions, f \in Filenames, c \in Contents :
             /\ Suffix(f) \in allowed_extensions
             /\ ~InHashSet(b, calculate_file_hash(c))
             /\ ~BoundToOther(b, f, calculate_file_hash(c))
             /\ \E a \in Sessions \ {b} :
                   \/ InHashSet(a, calculate_file_hash(c))
                   \/ \E g \in Hashes : Bound(a, f, g)
             /\ \E p \in Procs :
                   /\ procs[p].pc = "idle"
                   /\ procs'[p].pc # "idle" \/ (procs' = procs /\ reply'.op = "upload")
                   /\ \E put_ok \in BOOLEAN, parsed \in BOOLEAN :
                         upload_file(p, b, f, c, put_ok, parsed)
             => uuids' = uuids + 1
       /\ ledger' # ledger =>
             \A b \in Sessions, c \in Contents :
                /\ ~InHashSet(b, calculate_file_hash(c))
                /\ InHashSet(b, calculate_file_hash(c))'
                /\ \E a \in Sessions \ {b} : InHashSet(a, calculate_file_hash(c))
                => Cardinality(Copies(c)') >= 2
      ]_vars

\* the same bytes under the same file name were registered in s1 and in s2
\* and stored twice, and s1 was cleared since: s2 still holds them
C32_Witness ==
    /\ reply = SessionCleared("s1")
    /\ <<"X", <<"cube", ".stl">>>> \in cleared["s1"]
    /\ SessionState("s1").hashes = {}
    /\ SessionState("s2").hashes = {calculate_file_hash("X")}
    /\ Bound("s2", <<"cube", ".stl">>, calculate_file_hash("X"))
    /\ Cardinality(Copies("X")) = 2


\* C33: Within one sweep, a failure while examining or deleting one object
\* does not prevent the other expired objects from being deleted in that same
\* sweep, in local mode and in s3 mode alike: when the sweep comes to a stored
\* name with committed metadata older than its cutoff, no call on that name
\* fails and a call on another name has failed in this sweep, the name is
\* deleted.
C33_FailureSparesOtherDeletions ==
    [][\A n \in StoredNames :
          /\ Examined(n)
          /\ swept'[n] # "error"
          /\ \E m \in DOMAIN swept' \ {n} : swept'[m] = "error"
          /\ Committed(n)
          /\ older_than_cutoff(UploadTime(n), SweepCutoff)
          => Gone(n)'
      ]_vars
====
